---- MODULE Spec2Model ----
(***************************************************************************)
(* The Lightning payment monitor daemon (scripts/lightning-monitor.py):    *)
(* the main loop, monitor_node, post_to_webhook, update_pay_index and the  *)
(* signal handler, together with the three collaborators they talk to: the *)
(* node registry (Supabase table ln_nodes), the Greenlight RPC client and  *)
(* the webhook.                                                            *)
(***************************************************************************)
EXTENDS Integers, Sequences, FiniteSets, TLC

\* Most invoices the remote node ever holds.
MaxInvoices == 3

\* POLL_INTERVAL: one-second sleep increments between two cycles.
PollInterval == 2

\* Python None, JSON null, or a key that is absent from a dict.
None == -1

VARIABLES
    running,          \* the global flag cleared by handle_signal
    pc,               \* the position of main()
    nodes,            \* the nodes of this cycle the for loop has not reached yet
    node,             \* monitor_node's argument
    last_pay_index,   \* monitor_node's local
    idx,              \* position of `for inv in invoices`
    max_pay_index,    \* monitor_node's local
    new_payments,     \* monitor_node's local
    slept,            \* position of `for _ in range(POLL_INTERVAL)`
    registry,         \* ln_nodes.last_pay_index of every node id
    invoices,         \* what listinvoices answers, in the order it answers
    posts,            \* the POSTs the webhook got in the current monitor_node call
    issued,           \* the value the current call passed to update_pay_index
    raised,           \* what the current call's try block raised, "" if nothing
    request,          \* what the current call sent to the Greenlight scheduler
    sent,             \* per node id: the invoices ever POSTed for it
    acked,            \* per node id: the invoices the webhook answered 200/201 for
    covered,          \* per node id: the invoices POSTed in calls whose write was applied
    sig,              \* where the shutdown signal arrived and what was started after it
    log               \* the levels of the records the daemon's latest step logged

locals == <<node, last_pay_index, idx, max_pay_index, new_payments>>
obs == <<posts, issued, raised, request>>
hist == <<sent, acked, covered>>
vars == <<running, pc, nodes, node, last_pay_index, idx, max_pay_index,
          new_payments, slept, registry, invoices, posts, issued, raised,
          request, sent, acked, covered, sig, log>>

-----------------------------------------------------------------------------
(* The registry rows: the second node was never registered with Greenlight. *)
NodeTable ==
    << [id |-> "n1", greenlight_node_id |-> "gl1"],
       [id |-> "n2", greenlight_node_id |-> ""] >>

NodeIds == {NodeTable[k].id : k \in 1..Len(NodeTable)}

NoNode == [id |-> "", greenlight_node_id |-> "", last_pay_index |-> None]

(* An amount as the RPC client gives it: an integer (num) or a string (its  *)
(* characters).  MissingAmount stands for a key the invoice does not have.  *)
IntAmt(n) == [str |-> FALSE, num |-> n, chars |-> <<>>]
StrAmt(s) == [str |-> TRUE, num |-> None, chars |-> s]
MissingAmount == IntAmt(None)

\* The unit suffix the monitor strips.
Msat == <<"m", "s", "a", "t">>

IntAmount == IntAmt(1)
BadAmount == StrAmt(<<"x">> \o Msat)

\* A pay_index a record that is not paid may carry; above every watermark.
StrayPayIndex == MaxInvoices

(* The records listinvoices may answer for an invoice that is not paid: the *)
(* usual one (unpaid, no pay_index) and, for each status other than 'paid', *)
(* one that carries a pay_index all the same.                               *)
NonPaidRecords ==
    {[status |-> "unpaid", pay_index |-> None,
      amount_received_msat |-> IntAmount, msatoshi_received |-> MissingAmount]}
    \cup {[status |-> st, pay_index |-> StrayPayIndex,
           amount_received_msat |-> IntAmount, msatoshi_received |-> MissingAmount] :
            st \in {"unpaid", "expired", ""}}

(* The records of a paid invoice: the node's next pay_index with an amount  *)
(* that parses or not, or no pay_index at all.                              *)
PaidRecords(next) ==
    {[status |-> "paid", pay_index |-> next,
      amount_received_msat |-> amt, msatoshi_received |-> MissingAmount] :
        amt \in {IntAmount, BadAmount}}
    \cup {[status |-> "paid", pay_index |-> None,
           amount_received_msat |-> IntAmount, msatoshi_received |-> MissingAmount]}

WebhookOutcomes == {"200", "201", "500", "raise"}
RegistryOutcomes == {"2xx", "5xx", "raise"}

-----------------------------------------------------------------------------
\* node.get('last_pay_index') or 0
OrZero(v) == IF v = None \/ v = 0 THEN 0 ELSE v

\* inv.get('status', '')
StatusOf(inv) == inv.status

\* inv.get('pay_index', 0)
PayIndexOf(inv) == IF inv.pay_index = None THEN 0 ELSE inv.pay_index

\* The filter with `<` for `<=`.
SkippedStrict(inv, w) == StatusOf(inv) # "paid" \/ PayIndexOf(inv) < w

\* The filter without its status test.
SkippedAnyStatus(inv, w) == PayIndexOf(inv) <= w

\* `if status != 'paid' or pay_index <= last_pay_index: continue`
Skipped(inv, w) == StatusOf(inv) # "paid" \/ PayIndexOf(inv) <= w

\* inv.get('amount_received_msat', inv.get('msatoshi_received', 0))
RawAmount(inv) ==
    IF inv.amount_received_msat # MissingAmount THEN inv.amount_received_msat
    ELSE IF inv.msatoshi_received # MissingAmount THEN inv.msatoshi_received
    ELSE IntAmt(0)

\* The decimal digits int() reads.
Digits == <<"0", "1", "2", "3", "4", "5", "6", "7", "8", "9">>

DigitValue(c) == (CHOOSE d \in 1..10 : Digits[d] = c) - 1

\* Whether int(s) answers: s is a non-empty run of decimal digits.
IsNumeral(s) ==
    /\ Len(s) > 0
    /\ \A i \in 1..Len(s) : \E d \in 1..10 : Digits[d] = s[i]

\* int(s) for a run of decimal digits
RECURSIVE IntOf(_)
IntOf(s) ==
    IF s = <<>> THEN 0
    ELSE 10 * IntOf(SubSeq(s, 1, Len(s) - 1)) + DigitValue(s[Len(s)])

\* amount_msat.endswith('msat')
EndsWithMsat(s) ==
    Len(s) >= Len(Msat) /\ SubSeq(s, Len(s) - Len(Msat) + 1, Len(s)) = Msat

\* amount_msat[:-4]
StripUnit(s) == SubSeq(s, 1, Len(s) - 4)

\* isinstance(amount_msat, str) and amount_msat.endswith('msat')
IsMsatString(a) == a.str /\ EndsWithMsat(a.chars)

\* int(amount_msat[:-4]) raising ValueError
AmountRaises(a) == IsMsatString(a) /\ ~IsNumeral(StripUnit(a.chars))

\* The amount left as the RPC client gave it.
AmountMsatAsIs(a) == a

\* `amount_msat = int(amount_msat[:-4])` for a string that ends with 'msat'
AmountMsat(a) ==
    IF IsMsatString(a) THEN IntAmt(IntOf(StripUnit(a.chars))) ELSE a

\* The running maximum replaced by the pay_index seen last.
NewMaxLast(m, p) == p

\* `if pay_index > max_pay_index: max_pay_index = pay_index`
NewMax(m, p) == IF p > m THEN p ELSE m

\* The write issued also when the maximum did not move.
MustUpdateAtLeast(m, w) == m >= w

\* `if max_pay_index > last_pay_index:`
MustUpdate(m, w) == m > w

\* resp.status_code in (200, 201)
Accepted(outcome) == outcome \in {"200", "201"}

\* What post_to_webhook logs.
WebhookLog(outcome) ==
    IF Accepted(outcome) THEN <<"info">>
    ELSE IF outcome = "raise" THEN <<"error">> ELSE <<"warning">>

\* What update_pay_index logs: something only when the PATCH raises.
RegistryLog(outcome) == IF outcome = "raise" THEN <<"error">> ELSE <<>>

\* post_to_webhook without its `except Exception`.
PostPropagatesRaise(outcome) == outcome = "raise"

\* post_to_webhook's `except Exception` lets nothing out to monitor_node
PostPropagates(outcome) == FALSE

\* Nothing sent to the scheduler.
NoRequest == [network |-> "", creds |-> "", method |-> "", params |-> ""]

(* Scheduler(GL_NETWORK, creds).node().call('listinvoices', '{}') in the    *)
(* call for the row n: the developer credentials loaded at startup, the     *)
(* method and its empty filter.                                             *)
ListInvoices(n) ==
    [network |-> "GL_NETWORK", creds |-> "nobody",
     method |-> "listinvoices", params |-> "{}"]

\* The rows get_active_nodes returns when the registry answers.
ActiveNodes ==
    [k \in 1..Len(NodeTable) |->
        [id |-> NodeTable[k].id,
         greenlight_node_id |-> NodeTable[k].greenlight_node_id,
         last_pay_index |-> registry[NodeTable[k].id]]]

\* The next pay_index the remote node assigns.
NextPayIndex ==
    LET paid == {PayIndexOf(invoices[i]) : i \in
                    {j \in 1..Len(invoices) : invoices[j].status = "paid"}}
    IN  IF paid = {} THEN 1
        ELSE 1 + CHOOSE m \in paid : \A p \in paid : p <= m

-----------------------------------------------------------------------------
Init ==
    /\ running = TRUE
    /\ pc = "while"
    /\ nodes = <<>>
    /\ node = NoNode
    /\ last_pay_index = 0
    /\ idx = 0
    /\ max_pay_index = 0
    /\ new_payments = 0
    /\ slept = 0
    /\ registry = [n \in NodeIds |-> IF n = "n1" THEN None ELSE 0]
    /\ invoices = <<>>
    /\ posts = <<>>
    /\ issued = None
    /\ raised = ""
    /\ request = NoRequest
    /\ sent = [n \in NodeIds |-> {}]
    /\ acked = [n \in NodeIds |-> {}]
    /\ covered = [n \in NodeIds |-> {}]
    /\ sig = [at |-> "none", fetches |-> 0, polls |-> 0, sleeps |-> 0]
    /\ log = <<>>

\* What was started after the flag was cleared.
Note(field) ==
    IF running THEN sig
    ELSE [sig EXCEPT ![field] = IF @ < 2 THEN @ + 1 ELSE @]

\* handle_signal
Signal ==
    /\ running
    /\ pc # "stopped"
    /\ running' = FALSE
    /\ sig' = [sig EXCEPT !.at = pc]
    /\ UNCHANGED <<pc, nodes, slept, registry, invoices>>
    /\ UNCHANGED <<locals, obs, hist>>
    /\ log' = <<"info">>

\* `while running:` and the log line after the loop
While ==
    /\ pc = "while"
    /\ pc' = IF running THEN "fetch" ELSE "stopped"
    /\ UNCHANGED <<running, nodes, slept, registry, invoices, sig>>
    /\ UNCHANGED <<locals, obs, hist>>
    /\ log' = IF running THEN <<>> ELSE <<"info">>

\* nodes = get_active_nodes(); `if nodes:`
Fetch ==
    /\ pc = "fetch"
    /\ \E ok \in BOOLEAN :
        /\ nodes' = IF ok THEN ActiveNodes ELSE <<>>
        /\ pc' = IF ok THEN "for" ELSE "sleep"
        /\ log' = IF ok THEN <<"info">> ELSE <<"error", "debug">>
    /\ slept' = 0
    /\ sig' = Note("fetches")
    /\ UNCHANGED <<running, registry, invoices>>
    /\ UNCHANGED <<locals, obs, hist>>

\* `for node in nodes:` exhausted
ForDone ==
    /\ pc = "for"
    /\ nodes = <<>>
    /\ pc' = "sleep"
    /\ slept' = 0
    /\ UNCHANGED <<running, nodes, registry, invoices, sig>>
    /\ UNCHANGED <<locals, obs, hist>>
    /\ log' = <<>>

\* `if not running: break`
ForBreak ==
    /\ pc = "for"
    /\ nodes # <<>>
    /\ ~running
    /\ nodes' = <<>>
    /\ pc' = "sleep"
    /\ slept' = 0
    /\ UNCHANGED <<running, registry, invoices, sig>>
    /\ UNCHANGED <<locals, obs, hist>>
    /\ log' = <<>>

\* monitor_node(creds, node) for a node without greenlight_node_id
ForSkip ==
    /\ pc = "for"
    /\ nodes # <<>>
    /\ running
    /\ Head(nodes).greenlight_node_id = ""
    /\ nodes' = Tail(nodes)
    /\ sig' = Note("polls")
    /\ UNCHANGED <<running, pc, slept, registry, invoices>>
    /\ UNCHANGED <<locals, obs, hist>>
    /\ log' = <<"warning">>

\* monitor_node(creds, node): the two locals bound before the try block
ForCall ==
    /\ pc = "for"
    /\ nodes # <<>>
    /\ running
    /\ Head(nodes).greenlight_node_id # ""
    /\ node' = Head(nodes)
    /\ nodes' = Tail(nodes)
    /\ last_pay_index' = OrZero(Head(nodes).last_pay_index)
    /\ pc' = "rpc"
    /\ sig' = Note("polls")
    /\ UNCHANGED <<running, slept, registry, invoices, idx, max_pay_index,
                   new_payments>>
    /\ UNCHANGED <<obs, hist>>
    /\ log' = <<>>

\* Scheduler(...).node().call('listinvoices', '{}'), json.loads, data.get
RpcDone ==
    /\ idx' = 1
    /\ max_pay_index' = last_pay_index
    /\ new_payments' = 0
    /\ pc' = "loop"
    /\ UNCHANGED raised
    /\ log' = <<>>

\* The enumeration raising with no `except` around it: main() dies.
RpcFailedUncaught ==
    /\ raised' = "rpc"
    /\ pc' = "stopped"
    /\ UNCHANGED <<idx, max_pay_index, new_payments>>
    /\ log' = <<>>

\* the same three lines raising: `except Exception as e: log.error(...)`
RpcFailed ==
    /\ raised' = "rpc"
    /\ pc' = "ret"
    /\ UNCHANGED <<idx, max_pay_index, new_payments>>
    /\ log' = <<"error">>

Rpc ==
    /\ pc = "rpc"
    /\ request' = ListInvoices(node)
    /\ (RpcDone \/ RpcFailed)
    /\ UNCHANGED <<running, nodes, node, last_pay_index, slept, registry,
                   invoices, posts, issued, sent, acked, covered, sig>>

\* The invoice loop also left when the flag is cleared.
LoopDoneOrStopped ==
    /\ pc = "loop"
    /\ (idx > Len(invoices) \/ ~running)
    /\ pc' = "update"
    /\ UNCHANGED <<running, nodes, slept, registry, invoices, sig>>
    /\ UNCHANGED <<locals, obs, hist>>
    /\ log' = <<>>

\* `for inv in invoices:` exhausted
LoopDone ==
    /\ pc = "loop"
    /\ idx > Len(invoices)
    /\ pc' = "update"
    /\ UNCHANGED <<running, nodes, slept, registry, invoices, sig>>
    /\ UNCHANGED <<locals, obs, hist>>
    /\ log' = <<>>

\* `continue`
LoopSkip ==
    /\ pc = "loop"
    /\ idx <= Len(invoices)
    /\ Skipped(invoices[idx], last_pay_index)
    /\ idx' = idx + 1
    /\ UNCHANGED <<running, pc, nodes, slept, registry, invoices, sig,
                   node, last_pay_index, max_pay_index, new_payments>>
    /\ UNCHANGED <<obs, hist>>
    /\ log' = <<>>

\* int() raising on the amount: the call's `except Exception`
LoopRaise ==
    /\ pc = "loop"
    /\ idx <= Len(invoices)
    /\ ~Skipped(invoices[idx], last_pay_index)
    /\ AmountRaises(RawAmount(invoices[idx]))
    /\ raised' = "amount"
    /\ pc' = "ret"
    /\ UNCHANGED <<running, nodes, slept, registry, invoices, sig, posts, issued,
                   request>>
    /\ UNCHANGED <<locals, hist>>
    /\ log' = <<"error">>

\* post_to_webhook(payment); new_payments += 1; the running maximum
LoopPost ==
    /\ pc = "loop"
    /\ idx <= Len(invoices)
    /\ ~Skipped(invoices[idx], last_pay_index)
    /\ ~AmountRaises(RawAmount(invoices[idx]))
    /\ \E outcome \in WebhookOutcomes :
        /\ posts' = Append(posts, [node_id |-> node.id, pos |-> idx,
                                   amount_msat |-> AmountMsat(RawAmount(invoices[idx])),
                                   ok |-> Accepted(outcome)])
        /\ acked' = IF Accepted(outcome)
                    THEN [acked EXCEPT ![node.id] = @ \cup {idx}]
                    ELSE acked
        /\ log' = WebhookLog(outcome)
        /\ IF PostPropagates(outcome)
           THEN /\ raised' = "webhook"
                /\ pc' = "ret"
                /\ UNCHANGED <<new_payments, max_pay_index, idx>>
           ELSE /\ new_payments' = new_payments + 1
                /\ max_pay_index' = NewMax(max_pay_index, PayIndexOf(invoices[idx]))
                /\ idx' = idx + 1
                /\ UNCHANGED <<raised, pc>>
    /\ sent' = [sent EXCEPT ![node.id] = @ \cup {idx}]
    /\ UNCHANGED <<running, nodes, slept, registry, invoices, sig,
                   node, last_pay_index, issued, request, covered>>

\* `if max_pay_index > last_pay_index:` not taken
UpdateNone ==
    /\ pc = "update"
    /\ ~MustUpdate(max_pay_index, last_pay_index)
    /\ pc' = "ret"
    /\ UNCHANGED <<running, nodes, slept, registry, invoices, sig>>
    /\ UNCHANGED <<locals, obs, hist>>
    /\ log' = <<>>

\* update_pay_index(node['id'], max_pay_index)
Update ==
    /\ pc = "update"
    /\ MustUpdate(max_pay_index, last_pay_index)
    /\ issued' = max_pay_index
    /\ \E outcome \in RegistryOutcomes :
        /\ IF outcome = "2xx"
           THEN /\ registry' = [registry EXCEPT ![node.id] = max_pay_index]
                /\ covered' = [covered EXCEPT ![node.id] =
                                  @ \cup {posts[k].pos : k \in 1..Len(posts)}]
           ELSE UNCHANGED <<registry, covered>>
        /\ log' = RegistryLog(outcome) \o <<"info">>
    /\ pc' = "ret"
    /\ UNCHANGED <<running, nodes, slept, invoices, sig, posts, raised,
                   request, sent, acked>>
    /\ UNCHANGED locals

\* monitor_node returns
Return ==
    /\ pc = "ret"
    /\ pc' = "for"
    /\ node' = NoNode
    /\ last_pay_index' = 0
    /\ idx' = 0
    /\ max_pay_index' = 0
    /\ new_payments' = 0
    /\ posts' = <<>>
    /\ issued' = None
    /\ raised' = ""
    /\ request' = NoRequest
    /\ UNCHANGED <<running, nodes, slept, registry, invoices, sig>>
    /\ UNCHANGED hist
    /\ log' = <<>>

\* `for _ in range(POLL_INTERVAL):` exhausted
SleepDone ==
    /\ pc = "sleep"
    /\ slept >= PollInterval
    /\ pc' = "while"
    /\ UNCHANGED <<running, nodes, slept, registry, invoices, sig>>
    /\ UNCHANGED <<locals, obs, hist>>
    /\ log' = <<>>

\* `if not running: break`
SleepBreak ==
    /\ pc = "sleep"
    /\ slept < PollInterval
    /\ ~running
    /\ pc' = "while"
    /\ UNCHANGED <<running, nodes, slept, registry, invoices, sig>>
    /\ UNCHANGED <<locals, obs, hist>>
    /\ log' = <<>>

\* The sleep loop without its look at the flag.
SleepStartDeaf ==
    /\ pc = "sleep"
    /\ slept < PollInterval
    /\ pc' = "sleeping"
    /\ UNCHANGED <<running, nodes, slept, registry, invoices, sig>>
    /\ UNCHANGED <<locals, obs, hist>>
    /\ log' = <<>>

\* time.sleep(1) entered
SleepStart ==
    /\ pc = "sleep"
    /\ slept < PollInterval
    /\ running
    /\ pc' = "sleeping"
    /\ UNCHANGED <<running, nodes, slept, registry, invoices, sig>>
    /\ UNCHANGED <<locals, obs, hist>>
    /\ log' = <<>>

\* time.sleep(1) returns
SleepTick ==
    /\ pc = "sleeping"
    /\ slept' = slept + 1
    /\ pc' = "sleep"
    /\ sig' = Note("sleeps")
    /\ UNCHANGED <<running, nodes, registry, invoices>>
    /\ UNCHANGED <<locals, obs, hist>>
    /\ log' = <<>>

-----------------------------------------------------------------------------
(* The remote node.  Its invoice list changes only between two listinvoices *)
(* calls as far as the monitor can tell, so the changes are taken right     *)
(* before a call.                                                           *)

\* A record that is not paid; it may carry a stray pay_index.
NewInvoice ==
    /\ pc = "rpc"
    /\ Len(invoices) < MaxInvoices
    /\ \E inv \in NonPaidRecords : invoices' = Append(invoices, inv)
    /\ UNCHANGED <<running, pc, nodes, slept, registry, sig>>
    /\ UNCHANGED <<locals, obs, hist>>
    /\ UNCHANGED log

\* An unpaid invoice is paid: the node gives it the next pay_index.
Settle ==
    /\ pc = "rpc"
    /\ \E i \in 1..Len(invoices), inv \in PaidRecords(NextPayIndex) :
        /\ invoices[i].status = "unpaid"
        /\ invoices[i].pay_index = None
        /\ invoices' = [invoices EXCEPT ![i] = inv]
    /\ UNCHANGED <<running, pc, nodes, slept, registry, sig>>
    /\ UNCHANGED <<locals, obs, hist>>
    /\ UNCHANGED log

-----------------------------------------------------------------------------
Poller ==
    \/ While \/ Fetch
    \/ ForDone \/ ForBreak \/ ForSkip \/ ForCall
    \/ Rpc
    \/ LoopDone \/ LoopSkip \/ LoopRaise \/ LoopPost
    \/ UpdateNone \/ Update
    \/ Return
    \/ SleepDone \/ SleepBreak \/ SleepStart \/ SleepTick

Next == Poller \/ Signal \/ NewInvoice \/ Settle

Spec == Init /\ [][Next]_vars

-----------------------------------------------------------------------------
(* What the properties below talk about.                                    *)

\* main() is inside a monitor_node call that reached its try block.
InPoll == pc \in {"rpc", "loop", "update", "ret"}

\* A watermark or a pay_index as the specification reads it: none is 0.
Wm(v) == IF v = None THEN 0 ELSE v
Pi(i) == Wm(invoices[i].pay_index)

\* The invoices POSTed in the current call.
PostedNow == {posts[k].pos : k \in 1..Len(posts)}

\* The invoices of the node that are paid above the watermark w.
Qualifying(w) ==
    {i \in 1..Len(invoices) : invoices[i].status = "paid" /\ Pi(i) > w}

-----------------------------------------------------------------------------
(* C1: between two monitor_node calls, the registry's last_pay_index of     *)
(* each node is >= the pay_index of every invoice already sent to the       *)
(* webhook for that node, whatever the RPC, webhook and registry answered.  *)
C1_WatermarkCoversSent ==
    ~InPoll =>
        \A n \in NodeIds : \A i \in sent[n] : Wm(registry[n]) >= Pi(i)

(* C1 as amended: between two monitor_node calls, the registry's            *)
(* last_pay_index of each node is >= the pay_index of every invoice sent    *)
(* for that node in a call whose watermark write the registry applied.      *)
C1_WatermarkCoversApplied ==
    ~InPoll =>
        \A n \in NodeIds : \A i \in covered[n] : Wm(registry[n]) >= Pi(i)

\* Two invoices under the watermark after an applied write, a third sent above it.
C1_Witness ==
    /\ ~InPoll
    /\ Cardinality(covered["n1"]) >= 2
    /\ sent["n1"] \ covered["n1"] # {}

(* C2: the watermark of a node never passes the pay_index of a paid invoice *)
(* the webhook has not accepted (200/201) for that node, so every paid      *)
(* invoice above the watermark is delivered successfully at least once.     *)
C2_NoSilentDrop ==
    \A n \in NodeIds : \A i \in 1..Len(invoices) :
        (invoices[i].status = "paid" /\ Pi(i) > 0 /\ Pi(i) <= Wm(registry[n]))
            => i \in acked[n]

(* C3: a monitor_node call for a node whose last_pay_index is W sends no    *)
(* invoice with pay_index <= W, whatever its status; a null last_pay_index  *)
(* counts as 0 and a missing pay_index as 0.                                *)
C3_NothingAtOrBelowWatermark ==
    \A k \in 1..Len(posts) : Pi(posts[k].pos) > Wm(node.last_pay_index)

\* A call from watermark >= 1 that passed over a paid invoice at or below it,
\* and over a paid invoice without pay_index, and sent one above it.
C3_Witness ==
    /\ pc = "update"
    /\ Wm(node.last_pay_index) >= 1
    /\ posts # <<>>
    /\ \E i, j \in 1..Len(invoices) :
        /\ invoices[i].status = "paid" /\ invoices[i].pay_index # None
        /\ Pi(i) <= Wm(node.last_pay_index)
        /\ invoices[j].status = "paid" /\ invoices[j].pay_index = None

\* The pay_index values of the paid invoices of the node.
PaidIndexes == {Pi(i) : i \in {j \in 1..Len(invoices) : invoices[j].status = "paid"}}

(* C4: monitor_node sends no invoice whose status is not 'paid', whatever   *)
(* its pay_index, and such an invoice never contributes to the watermark:   *)
(* the running maximum, the value written and the registry's value are the  *)
(* value read or the pay_index of a paid invoice.                           *)
C4_OnlyPaid ==
    /\ \A k \in 1..Len(posts) : invoices[posts[k].pos].status = "paid"
    /\ pc \in {"loop", "update"} =>
          max_pay_index \in {Wm(node.last_pay_index)} \cup PaidIndexes
    /\ issued # None => issued \in PaidIndexes
    /\ \A n \in NodeIds : Wm(registry[n]) \in {0} \cup PaidIndexes

\* A call that passed over a record that is not paid and carries a pay_index
\* above the watermark, and sent a paid one.
C4_Witness ==
    /\ pc = "ret"
    /\ issued # None
    /\ \E i \in 1..Len(invoices) :
        /\ invoices[i].status # "paid"
        /\ Pi(i) > Wm(node.last_pay_index)

\* The greatest element of a set of numbers that is not empty.
MaxOf(S) == CHOOSE m \in S : \A x \in S : x <= m

(* C5: at the return of a monitor_node call whose enumeration succeeded: if *)
(* an invoice was delivered, the watermark written to the registry is the   *)
(* greatest pay_index delivered in the call; if none was, no write is       *)
(* issued and the registry's value is the one the call started from.        *)
C5_WrittenIsMaxDelivered ==
    (pc = "ret" /\ raised # "rpc") =>
        IF posts # <<>>
        THEN issued = MaxOf({Pi(i) : i \in PostedNow})
        ELSE issued = None /\ registry[node.id] = node.last_pay_index

(* C6: within one monitor_node call the invoices are sent in ascending      *)
(* pay_index order, whatever the order of the listinvoices response.        *)
C6_AscendingOrder ==
    \A j, k \in 1..Len(posts) :
        j < k => Pi(posts[j].pos) < Pi(posts[k].pos)

(* C7: when the enumeration of a node raises, the call attempts no          *)
(* delivery and no write and leaves the node's registry row as it was read; *)
(* control returns to the for loop with the remaining nodes untouched and   *)
(* main() stops only once the flag is cleared; a row changes only in a call *)
(* for that node that did enumerate, and every call starts from the row's   *)
(* current value, so the next call for the node starts from the same        *)
(* watermark.                                                               *)
C7_EnumerationFailure ==
    /\ []((pc = "ret" /\ raised = "rpc") =>
            /\ posts = <<>>
            /\ issued = None
            /\ registry[node.id] = node.last_pay_index)
    /\ [](pc = "stopped" => ~running)
    /\ [][(pc = "rpc" /\ raised' = "rpc") =>
            /\ pc' = "ret"
            /\ registry' = registry
            /\ sent' = sent
            /\ nodes' = nodes]_vars
    /\ [][(pc = "ret" /\ raised = "rpc" /\ pc' # pc) =>
            /\ pc' = "for"
            /\ nodes' = nodes
            /\ registry' = registry]_vars
    /\ [][(pc = "for" /\ pc' = "rpc") =>
            last_pay_index' = Wm(registry[node'.id])]_vars
    /\ [][\A n \in NodeIds : registry'[n] # registry[n] =>
            (pc = "update" /\ node.id = n /\ raised = "")]_vars

\* A failed enumeration from watermark >= 1 with an invoice above it waiting
\* and another node of the cycle still to come.
C7_Witness ==
    /\ pc = "ret"
    /\ raised = "rpc"
    /\ nodes # <<>>
    /\ Wm(registry[node.id]) >= 1
    /\ Qualifying(last_pay_index) # {}

(* C8: after a failed webhook delivery the call has POSTed the invoice      *)
(* once, has sent every other qualifying invoice, and the registry's        *)
(* watermark is at or above the failed invoice's pay_index.                 *)
C8_FailedDeliveryAdvances ==
    (pc = "ret" /\ \E k \in 1..Len(posts) : ~posts[k].ok) =>
        /\ \A j, k \in 1..Len(posts) : j # k => posts[j].pos # posts[k].pos
        /\ Qualifying(last_pay_index) \subseteq PostedNow
        /\ \A k \in 1..Len(posts) :
              ~posts[k].ok => Wm(registry[node.id]) >= Pi(posts[k].pos)

(* C8 as amended: a failed delivery raises nothing into monitor_node; every *)
(* invoice is POSTed at most once per call; the loop passes over no         *)
(* qualifying invoice, so a call that raises nothing has sent them all; the *)
(* running maximum and the value written are >= the pay_index of every      *)
(* POST of the call, failed or not; and an invoice is only POSTed while the *)
(* registry's watermark is below its pay_index.                             *)
C8_FailedDeliveryCounts ==
    /\ raised \in {"", "rpc", "amount"}
    /\ \A j, k \in 1..Len(posts) : j # k => posts[j].pos # posts[k].pos
    /\ pc = "loop" =>
          \A i \in Qualifying(last_pay_index) : i < idx => i \in PostedNow
    /\ (pc \in {"update", "ret"} /\ raised = "") =>
          Qualifying(last_pay_index) \subseteq PostedNow
    /\ pc \in {"loop", "update"} =>
          \A k \in 1..Len(posts) :
              /\ max_pay_index >= Pi(posts[k].pos)
              /\ Pi(posts[k].pos) > Wm(registry[node.id])
    /\ issued # None =>
          \A k \in 1..Len(posts) : issued >= Pi(posts[k].pos)

\* A failed POST followed by another POST, and the write applied.
C8_Witness ==
    /\ pc = "ret"
    /\ issued # None
    /\ registry[node.id] = issued
    /\ \E j, k \in 1..Len(posts) :
        j < k /\ ~posts[j].ok /\ Pi(posts[j].pos) > Pi(posts[k].pos)

\* How far main() is from its last line once the flag is cleared.
Rank ==
    CASE pc = "fetch" -> 9
      [] pc = "rpc" -> 8
      [] pc = "loop" -> 7
      [] pc = "update" -> 6
      [] pc = "ret" -> 5
      [] pc = "for" -> 4
      [] pc = "sleeping" -> 3
      [] pc = "sleep" -> 2
      [] pc = "while" -> 1
      [] OTHER -> 0

Measure ==
    Rank * (MaxInvoices + 2)
    + (IF pc = "loop" THEN Len(invoices) + 1 - idx ELSE 0)

SignalInSleep == sig.at \in {"sleep", "sleeping"}

SignalInPoll == sig.at \in {"rpc", "loop", "update", "ret"}

(* C9: when the signal clears the flag during the sleep between two cycles, *)
(* at most one more time.sleep(1) returns, no node list is fetched and no   *)
(* monitor_node call is started any more, and main() goes on to its last    *)
(* line: a step is always possible until then and every step brings it      *)
(* closer.                                                                  *)
C9_StopsFromSleep ==
    /\ [](SignalInSleep =>
            /\ sig.fetches = 0
            /\ sig.polls = 0
            /\ sig.sleeps <= 1
            /\ pc \in {"sleeping", "sleep", "while", "stopped"})
    /\ []((SignalInSleep /\ pc # "stopped") => ENABLED Poller)
    /\ [][(SignalInSleep /\ pc' # pc) => Measure' < Measure]_vars

\* Stopped after a signal that arrived inside time.sleep(1).
C9_Witness ==
    /\ pc = "stopped"
    /\ sig.at = "sleeping"
    /\ sig.sleeps = 1
    /\ slept < PollInterval

(* C10: when the signal arrives inside a monitor_node call, the call has    *)
(* sent every qualifying invoice of the node and issued the write at its    *)
(* return, and no node, fetch or sleep is started afterwards.               *)
C10_InFlightPollCompletes ==
    SignalInPoll =>
        /\ sig.polls = 0 /\ sig.fetches = 0 /\ sig.sleeps = 0
        /\ pc = "ret" =>
              /\ Qualifying(last_pay_index) \subseteq PostedNow
              /\ Qualifying(last_pay_index) # {} => issued # None

(* C10 as amended: the call is left only through its return, and unless it  *)
(* raised (enumeration, amount) it has then sent every qualifying invoice   *)
(* and issued the write for them; no node, fetch or sleep is started        *)
(* afterwards and main() goes on to its last line.                          *)
C10_FlagNotActedOnInPoll ==
    /\ [](SignalInPoll =>
            /\ sig.polls = 0 /\ sig.fetches = 0 /\ sig.sleeps = 0
            /\ (pc = "ret" /\ raised = "") =>
                  /\ Qualifying(last_pay_index) \subseteq PostedNow
                  /\ posts # <<>> =>
                        /\ issued # None
                        /\ \A k \in 1..Len(posts) : issued >= Pi(posts[k].pos))
    /\ []((SignalInPoll /\ pc # "stopped") => ENABLED Poller)
    /\ [][(SignalInPoll /\ (pc' # pc \/ idx' # idx)) => Measure' < Measure]_vars
    /\ [][(~running /\ pc \in {"rpc", "loop", "update"}) =>
            pc' \in {"rpc", "loop", "update", "ret"}]_vars

\* The signal arrived in the invoice loop before the first POST; the call
\* went on to send two invoices and issue the write, with a node still to come.
C10_Witness ==
    /\ pc = "ret"
    /\ sig.at = "loop"
    /\ Len(posts) >= 2
    /\ issued # None
    /\ nodes # <<>>

-----------------------------------------------------------------------------
(* The amount of one paid invoice, for every shape the two amount fields    *)
(* may have: monitor_node at the invoice loop of a call whose listinvoices  *)
(* response holds that one invoice.                                         *)

\* Longest run of digits in an amount string.
MaxDigits == 2

\* The digits the amount strings are written with.
AmountDigits == {"0", "1", "7"}

\* The unit suffixes: none, the one the monitor strips, and another one.
AmountUnits == {<<>>, Msat, <<"s", "a", "t">>}

RECURSIVE DigitRuns(_)
DigitRuns(n) ==
    IF n = 0 THEN {<<>>}
    ELSE LET shorter == DigitRuns(n - 1)
         IN  shorter \cup {Append(r, d) : r \in shorter, d \in AmountDigits}

RECURSIVE TenTo(_)
TenTo(k) == IF k = 0 THEN 1 ELSE 10 * TenTo(k - 1)

\* The amounts up to MaxDigits digits.
Amounts == 0 .. (TenTo(MaxDigits) - 1)

AmountInputs ==
    {MissingAmount}
    \cup {IntAmt(n) : n \in 0 .. (10 * MaxDigits)}
    \cup {StrAmt(r \o u) : r \in DigitRuns(MaxDigits), u \in AmountUnits}

InitAmount ==
    /\ running = TRUE
    /\ registry = [n \in NodeIds |-> IF n = "n1" THEN None ELSE 0]
    /\ node = ActiveNodes[1]
    /\ nodes = Tail(ActiveNodes)
    /\ last_pay_index = 0
    /\ idx = 1
    /\ max_pay_index = 0
    /\ new_payments = 0
    /\ slept = 0
    /\ pc = "loop"
    /\ \E primary \in AmountInputs, alias \in AmountInputs :
        invoices = << [status |-> "paid", pay_index |-> 1,
                       amount_received_msat |-> primary,
                       msatoshi_received |-> alias] >>
    /\ posts = <<>>
    /\ issued = None
    /\ raised = ""
    /\ request = ListInvoices(node)
    /\ sent = [n \in NodeIds |-> {}]
    /\ acked = [n \in NodeIds |-> {}]
    /\ covered = [n \in NodeIds |-> {}]
    /\ sig = [at |-> "none", fetches |-> 0, polls |-> 0, sleeps |-> 0]
    /\ log = <<>>

NextAmount == LoopPost \/ LoopRaise

SpecAmount == InitAmount /\ [][NextAmount]_vars

\* n written in decimal
RECURSIVE Decimal(_)
Decimal(n) ==
    IF n < 10 THEN <<Digits[n + 1]>>
    ELSE Decimal(n \div 10) \o <<Digits[(n % 10) + 1]>>

\* The amount n as the string "<n>msat".
MsatString == [n \in Amounts |-> StrAmt(Decimal(n) \o Msat)]

\* The amount field the invoice supplies: the primary one, else the alias.
Supplied(inv) ==
    IF inv.amount_received_msat # MissingAmount THEN inv.amount_received_msat
    ELSE inv.msatoshi_received

(* C11: the amount of every payload is the invoice's amount normalised: the *)
(* string "<n>msat" gives the integer n, an integer n gives n, the legacy   *)
(* alias field is the one used when the primary field is absent, and with   *)
(* both fields absent the amount is 0; none of these amounts makes the call *)
(* raise.                                                                   *)
C11_AmountNormalised ==
    /\ \A k \in 1..Len(posts) :
        LET given == Supplied(invoices[posts[k].pos])
            out == posts[k].amount_msat
        IN  /\ \A n \in Amounts :
                /\ given = MsatString[n] => out = IntAmt(n)
                /\ given = IntAmt(n) => out = IntAmt(n)
            /\ given = MissingAmount => out = IntAmt(0)
    /\ raised = "amount" =>
        LET given == Supplied(invoices[idx])
        IN  /\ given # MissingAmount
            /\ \A n \in Amounts :
                given # MsatString[n] /\ given # IntAmt(n)

\* A payload of 17 for an invoice that has only the alias field, "17msat".
C11_Witness ==
    /\ Len(posts) = 1
    /\ invoices[1].amount_received_msat = MissingAmount
    /\ invoices[1].msatoshi_received = StrAmt(<<"1", "7">> \o Msat)
    /\ posts[1].amount_msat = IntAmt(17)

-----------------------------------------------------------------------------
\* The qualifying invoices of the current call whose amount int() rejects.
Unparseable ==
    {i \in Qualifying(last_pay_index) : AmountRaises(RawAmount(invoices[i]))}

(* C12: an invoice whose amount cannot be parsed is skipped on its own: at  *)
(* the return of a call whose enumeration succeeded, every other qualifying *)
(* invoice of the node was POSTed in the call, none of the unparseable ones *)
(* was, and if there is another one a watermark write was issued.           *)
C12_BadAmountSkippedAlone ==
    (pc = "ret" /\ raised # "rpc") =>
        LET others == Qualifying(last_pay_index) \ Unparseable
        IN  /\ others \subseteq PostedNow
            /\ PostedNow \cap Unparseable = {}
            /\ others # {} => issued # None

-----------------------------------------------------------------------------
\* monitor_node is between its first line and its watermark write.
Polling == pc \in {"rpc", "loop", "update"}

(* C13: the registry's last_pay_index of a node never decreases; every      *)
(* value a call passes to update_pay_index is strictly greater than the     *)
(* value the cycle read for that node; the rows a cycle works with are read *)
(* from the registry when the cycle starts, and the value a call compares   *)
(* with is the registry's current one, none kept from an earlier cycle.     *)
C13_WatermarkMonotone ==
    /\ [][\A n \in NodeIds : Wm(registry'[n]) >= Wm(registry[n])]_vars
    /\ [](issued # None => issued > Wm(node.last_pay_index))
    /\ [][(pc = "fetch" /\ pc' = "for") =>
            \A k \in 1..Len(nodes') :
                nodes'[k].last_pay_index = registry[nodes'[k].id]]_vars
    /\ [](Polling => /\ node.last_pay_index = registry[node.id]
                     /\ last_pay_index = Wm(registry[node.id]))

\* A call that started from a watermark written earlier and raised it again.
C13_Witness ==
    /\ pc = "ret"
    /\ Wm(node.last_pay_index) >= 1
    /\ issued # None
    /\ registry[node.id] = issued

-----------------------------------------------------------------------------
\* The records that report a failure.
FailureRecords(l) == {k \in 1..Len(l) : l[k] \in {"warning", "error"}}

(* C14: no failure is silently swallowed: a step in which the node fetch    *)
(* fails, the enumeration raises, a webhook POST raises or is answered with *)
(* something other than 200/201, or the watermark update raises or is not   *)
(* applied by the registry, logs a warning or an error.                     *)
C14_NoSilentFailure ==
    [][ ( \/ pc = "fetch" /\ pc' = "sleep"
          \/ pc = "rpc" /\ raised' = "rpc"
          \/ Len(posts') > Len(posts) /\ ~posts'[Len(posts')].ok
          \/ pc = "update" /\ issued' # None /\ registry'[node.id] # issued' )
        => FailureRecords(log') # {} ]_vars

-----------------------------------------------------------------------------
\* The current call has sent its enumeration request.
Enumerated == pc \in {"loop", "update", "ret"}

(* C15: polling is node-scoped: the enumeration request of a call names the *)
(* remote node id of the row the call is for, every payload of the call     *)
(* carries that row's id, and a step changes no watermark but that of the   *)
(* row being polled.                                                        *)
C15_NodeScoped ==
    /\ [](Enumerated =>
            \E f \in DOMAIN request : request[f] = node.greenlight_node_id)
    /\ [](\A k \in 1..Len(posts) : posts[k].node_id = node.id)
    /\ [][\A n \in NodeIds : registry'[n] # registry[n] => n = node.id]_vars

-----------------------------------------------------------------------------
(* The runs in which no collaborator fails: the registry answers the node   *)
(* fetch and applies every watermark write, every enumeration answers and   *)
(* the webhook accepts every POST.                                          *)

\* A step in which the registry, the RPC client or the webhook fails.
CollaboratorFails ==
    \/ pc = "fetch" /\ pc' = "sleep"
    \/ pc = "rpc" /\ raised' = "rpc"
    \/ Len(posts') > Len(posts) /\ ~posts'[Len(posts')].ok
    \/ pc = "update" /\ issued' # None /\ registry'[node.id] # issued'

\* The four steps that talk to a collaborator, when it answers well.
FetchAnswered == Fetch /\ ~CollaboratorFails
RpcAnswered == Rpc /\ ~CollaboratorFails
PostAccepted == LoopPost /\ ~CollaboratorFails
UpdateApplied == Update /\ ~CollaboratorFails

NextNoFailure ==
    \/ While \/ FetchAnswered
    \/ ForDone \/ ForBreak \/ ForSkip \/ ForCall
    \/ RpcAnswered
    \/ LoopDone \/ LoopSkip \/ LoopRaise \/ PostAccepted
    \/ UpdateNone \/ UpdateApplied
    \/ Return
    \/ SleepDone \/ SleepBreak \/ SleepStart \/ SleepTick
    \/ Signal \/ NewInvoice \/ Settle

SpecNoFailure == Init /\ [][NextNoFailure]_vars

\* The paid invoices of the response that carry a pay_index.
PaidInvoices ==
    {i \in 1..Len(invoices) :
        invoices[i].status = "paid" /\ invoices[i].pay_index # None}

(* C16: when no enumeration, POST, node fetch or watermark write fails,     *)
(* each paid invoice of the node is sent exactly once: no POST is for an    *)
(* invoice that was POSTed before, in this call or in an earlier one, and   *)
(* at the return of a call every paid invoice of the node has been POSTed.  *)
C16_ExactlyOnce ==
    /\ [][Len(posts') > Len(posts) =>
            posts'[Len(posts')].pos \notin sent[node.id]]_vars
    /\ [](pc = "ret" => PaidInvoices \subseteq sent[node.id])

====
